---------------------------- MODULE Spec2Model ----------------------------
(***************************************************************************)
(* Derivatives analytics core of the Portfolio Backtest Engine             *)
(* (src/backend/options.py): Black-Scholes pricer, CRR binomial tree and   *)
(* its finite-difference delta, GBM path simulation, discrete delta        *)
(* hedging and the stress-scenario grid.                                   *)
(* With it: the download with retry and the realtime quote cache of        *)
(* src/backend/main.py, and the periodic rebalancing of                    *)
(* src/backend/portfolio.py.                                               *)
(*                                                                         *)
(* Reals.  The code computes in IEEE double precision.  Here a real x is   *)
(* the integer round(x * Scale): a fixed-point number with resolution      *)
(* 1/Scale.  Rounding to the representable grid happens after every        *)
(* multiplication and division, as it does in floating point, only at a    *)
(* coarser resolution; the three non-finite IEEE values are the encodings  *)
(* NaN, PosInf and NegInf and propagate by the IEEE rules.  Integer        *)
(* arguments (step and path counts) are plain integers.                    *)
(***************************************************************************)
EXTENDS Integers, Sequences, FiniteSets

VARIABLES
    req,        \* the arguments of the call(s): a record named as the parameters are
    op, out,    \* the pricing operation called and its outcome
    np_random,  \* the state of numpy's global generator (np.random): process-wide
    pc, fn,     \* per thread: where its simulation call stands, and which function it is
    dW,         \* per thread: the draws of its call (the local dW)
    result,     \* per thread: the outcome of its call
    found,      \* per thread: the generator state the call found when it was invoked
    hedge,      \* per thread: the local arrays of simulate_delta_hedging at its return
    fetch,      \* the call of fetch_data_with_retry: its locals and what it did so far
    quote,      \* the realtime endpoint: the clock, quote_cache and the requests under way
    rebal       \* the call of rebalance_portfolio: its locals

sim_vars == <<np_random, pc, fn, dW, result, found, hedge>>
vars == <<req, op, out, np_random, pc, fn, dW, result, found, hedge, fetch, quote, rebal>>

(***************************************************************************)
(* Number representation                                                   *)
(***************************************************************************)
Scale ==
    1000

\* Largest finite magnitude: beyond it a result overflows to an infinity,
\* as a double does beyond its largest finite value.
Huge ==
    1000000000

NaN ==
    2000000003

PosInf ==
    2000000001

NegInf ==
    -2000000001

IsNaN(a) ==
    a = NaN

IsInf(a) ==
    a = PosInf \/ a = NegInf

IsFinite(a) ==
    ~IsNaN(a) /\ ~IsInf(a)

Sgn(a) ==
    IF a > 0 THEN 1 ELSE IF a < 0 THEN -1 ELSE 0

Abs(a) ==
    IF a < 0 THEN -a ELSE a

\* Overflow of a finite result.
Sat(v) ==
    IF v > Huge THEN PosInf ELSE IF v < -Huge THEN NegInf ELSE v

\* n / d rounded to the nearest integer, for integers n and d > 0.
RDivPos(n, d) ==
    IF 2 * (n % d) >= d THEN (n \div d) + 1 ELSE n \div d

\* n / d rounded to the nearest integer (d # 0).
RDiv(n, d) ==
    IF d > 0 THEN RDivPos(n, d) ELSE RDivPos(-n, -d)

Neg(a) ==
    IF IsNaN(a) THEN NaN
    ELSE IF a = PosInf THEN NegInf
    ELSE IF a = NegInf THEN PosInf
    ELSE -a

\* a + b in IEEE arithmetic.
Add(a, b) ==
    IF IsNaN(a) \/ IsNaN(b) THEN NaN
    ELSE IF IsInf(a) THEN (IF IsInf(b) /\ a # b THEN NaN ELSE a)
    ELSE IF IsInf(b) THEN b
    ELSE Sat(a + b)

Sub(a, b) ==
    Add(a, Neg(b))

\* round(a * b / Scale) for finite a, b, computed without leaving the range.
MulFinite(a, b) ==
    LET x == IF Abs(a) <= Abs(b) THEN a ELSE b
        y == IF Abs(a) <= Abs(b) THEN b ELSE a
        q == y \div Scale
        m == y % Scale
    IN  IF x = 0 THEN 0
        ELSE IF Abs(x) > Huge \div Scale \/ Abs(q) > Huge \div Abs(x)
             THEN (IF Sgn(a) * Sgn(b) > 0 THEN PosInf ELSE NegInf)
        ELSE Sat(x * q + RDiv(x * m, Scale))

\* a * b in IEEE arithmetic, rounded to the grid.
Mul(a, b) ==
    IF IsNaN(a) \/ IsNaN(b) THEN NaN
    ELSE IF IsInf(a) \/ IsInf(b)
         THEN (IF a = 0 \/ b = 0 THEN NaN
               ELSE IF Sgn(a) * Sgn(b) > 0 THEN PosInf ELSE NegInf)
    ELSE MulFinite(a, b)

\* round(a * Scale / b) for finite a and b > 0, computed without leaving the range.
DivPos(a, b) ==
    IF Abs(a) <= Huge \div Scale THEN RDivPos(a * Scale, b)
    ELSE IF b < Scale THEN (IF a > 0 THEN PosInf ELSE NegInf)
    ELSE LET k   == a \div b
             rem == a % b
         IN  Sat(k * Scale + (IF b <= Huge \div Scale
                              THEN RDivPos(rem * Scale, b)
                              ELSE RDivPos(rem, b \div Scale)))

\* a / b as numpy divides float64 values: a zero divisor gives inf or nan
\* (with a RuntimeWarning), never an exception.
Div(a, b) ==
    IF IsNaN(a) \/ IsNaN(b) THEN NaN
    ELSE IF IsInf(a)
         THEN (IF IsInf(b) THEN NaN
               ELSE IF Sgn(a) * (IF b < 0 THEN -1 ELSE 1) > 0 THEN PosInf ELSE NegInf)
    ELSE IF IsInf(b) THEN 0
    ELSE IF b = 0
         THEN (IF a = 0 THEN NaN ELSE IF a > 0 THEN PosInf ELSE NegInf)
    ELSE IF b > 0 THEN DivPos(a, b) ELSE DivPos(-a, -b)

\* a * n and a / n for a plain integer n # 0.
MulInt(a, n) ==
    Mul(a, n * Scale)

DivInt(a, n) ==
    IF IsFinite(a) THEN RDiv(a, n) ELSE Div(a, n * Scale)

\* np.maximum(a, b): NaN propagates.
FMax(a, b) ==
    IF IsNaN(a) \/ IsNaN(b) THEN NaN
    ELSE IF a >= b THEN a ELSE b

\* a > b on floats: every comparison with NaN is false.
Gt(a, b) ==
    ~IsNaN(a) /\ ~IsNaN(b) /\ a > b

(***************************************************************************)
(* Library functions: np.sqrt, np.exp, np.log, scipy.stats.norm.cdf / pdf  *)
(***************************************************************************)
RECURSIVE ISqrt(_, _, _)
\* Largest s in lo..hi with s * s <= n.
ISqrt(n, lo, hi) ==
    IF lo >= hi THEN lo
    ELSE LET mid == (lo + hi + 1) \div 2
         IN  IF mid * mid <= n THEN ISqrt(n, mid, hi) ELSE ISqrt(n, lo, mid - 1)

\* np.sqrt: nan for a negative argument.
Sqrt(x) ==
    IF IsNaN(x) \/ x = NegInf THEN NaN
    ELSE IF x = PosInf THEN PosInf
    ELSE IF x < 0 THEN NaN
    ELSE IF x > Huge \div Scale THEN PosInf    \* no argument of the model comes near
    ELSE LET n == x * Scale
             s == ISqrt(n, 0, 31623)
         IN  IF n - s * s > s THEN s + 1 ELSE s

\* Taylor polynomial of e^x for |x| <= 1/2, in Horner form.
ExpSmall(x) ==
    LET h5 == Scale + RDiv(x, 5)
        h4 == Scale + RDiv(Mul(x, h5), 4)
        h3 == Scale + RDiv(Mul(x, h4), 3)
        h2 == Scale + RDiv(Mul(x, h3), 2)
    IN  Scale + Mul(x, h2)

RECURSIVE ExpFinite(_)
ExpFinite(x) ==
    IF 2 * Abs(x) <= Scale THEN ExpSmall(x)
    ELSE LET a == x \div 2
         IN  Mul(ExpFinite(a), ExpFinite(x - a))

\* np.exp.  Below -8 the value is under the resolution (underflow to 0);
\* above 14 it is over the largest finite magnitude (overflow to inf).
Exp(x) ==
    IF IsNaN(x) THEN NaN
    ELSE IF x = PosInf THEN PosInf
    ELSE IF x = NegInf THEN 0
    ELSE IF x < -8 * Scale THEN 0
    ELSE IF x > 14 * Scale THEN PosInf
    ELSE ExpFinite(x)

Ln2 ==
    693

\* ln x = 2 atanh((x-1)/(x+1)) for x near 1.
LnNear(x) ==
    LET y  == Div(x - Scale, x + Scale)
        y2 == Mul(y, y)
        y3 == Mul(y, y2)
        y5 == Mul(y3, y2)
        y7 == Mul(y5, y2)
    IN  2 * (y + RDiv(y3, 3) + RDiv(y5, 5) + RDiv(y7, 7))

RECURSIVE LnFinite(_)
LnFinite(x) ==
    IF 2 * x > 5 * Scale THEN LnFinite(RDiv(x, 2)) + Ln2
    ELSE IF 5 * x < 2 * Scale THEN LnFinite(2 * x) - Ln2
    ELSE LnNear(x)

\* np.log: -inf at 0 and nan below 0 (with a RuntimeWarning, no exception).
Ln(x) ==
    IF IsNaN(x) \/ x = NegInf THEN NaN
    ELSE IF x = PosInf THEN PosInf
    ELSE IF x < 0 THEN NaN
    ELSE IF x = 0 THEN NegInf
    ELSE LnFinite(x)

\* Phi(0.0), Phi(0.1), ..., Phi(4.0), each times Scale.
CdfTable ==
    << 500, 540, 579, 618, 655, 691, 726, 758, 788, 816,
       841, 864, 885, 903, 919, 933, 945, 955, 964, 971,
       977, 982, 986, 989, 992, 994, 995, 997, 997, 998,
       999, 999, 999, 1000, 1000, 1000, 1000, 1000, 1000, 1000, 1000 >>

\* Phi(x) for finite x >= 0: linear interpolation in the table.
CdfPos(x) ==
    IF x >= 4 * Scale THEN Scale
    ELSE LET i  == x \div 100
             f  == x % 100
             lo == CdfTable[i + 1]
             hi == CdfTable[i + 2]
         IN  lo + RDiv((hi - lo) * f, 100)

\* scipy.stats.norm.cdf
Cdf(x) ==
    IF IsNaN(x) THEN NaN
    ELSE IF x = PosInf THEN Scale
    ELSE IF x = NegInf THEN 0
    ELSE IF x >= 0 THEN CdfPos(x)
    ELSE Scale - CdfPos(-x)

\* scipy.stats.norm.pdf: exp(-x^2/2) / sqrt(2 pi)
Pdf(x) ==
    IF IsNaN(x) THEN NaN
    ELSE IF IsInf(x) THEN 0
    ELSE IF Abs(x) > 8 * Scale THEN 0
    ELSE Mul(Exp(Neg(DivInt(Mul(x, x), 2))), 399)

(***************************************************************************)
(* Outcome of a call: a returned value or a raised Python exception        *)
(***************************************************************************)
Ok(v) ==
    [raised |-> "none", ret |-> v]

Raise(e) ==
    [raised |-> e, ret |-> <<>>]

(***************************************************************************)
(* 1. Analytical model (Black-Scholes)                                     *)
(***************************************************************************)
\* d1 and d2 of the normal branch.
D1(S, K, T, r, sigma) ==
    Div(Add(Ln(Div(S, K)), Mul(Add(r, Mul(Scale \div 2, Mul(sigma, sigma))), T)),
        Mul(sigma, Sqrt(T)))

D2(S, K, T, r, sigma) ==
    Sub(D1(S, K, T, r, sigma), Mul(sigma, Sqrt(T)))

\* The price and Greeks from d1, d2, disc = exp(-r T) and pdf_d1 = norm.pdf(d1),
\* with the reported scaling.
BlackScholesResult(S, K, T, r, sigma, option_type, d1, d2, disc, pdf_d1, sqrtT) ==
    LET decay == Div(Neg(Mul(Mul(S, pdf_d1), sigma)), MulInt(sqrtT, 2))
        price == IF option_type = "Call"
                 THEN Sub(Mul(S, Cdf(d1)), Mul(Mul(K, disc), Cdf(d2)))
                 ELSE Sub(Mul(Mul(K, disc), Cdf(Neg(d2))), Mul(S, Cdf(Neg(d1))))
        delta == IF option_type = "Call" THEN Cdf(d1) ELSE Neg(Cdf(Neg(d1)))
        rho   == IF option_type = "Call"
                 THEN Mul(Mul(Mul(K, T), disc), Cdf(d2))
                 ELSE Mul(Mul(Neg(Mul(K, T)), disc), Cdf(Neg(d2)))
        theta == IF option_type = "Call"
                 THEN Sub(decay, Mul(Mul(Mul(r, K), disc), Cdf(d2)))
                 ELSE Add(decay, Mul(Mul(Mul(r, K), disc), Cdf(Neg(d2))))
        gamma == Div(pdf_d1, Mul(Mul(S, sigma), sqrtT))
        vega  == Mul(Mul(S, sqrtT), pdf_d1)
    IN  [Price |-> price,
         Delta |-> delta,
         Gamma |-> gamma,
         Vega  |-> DivInt(vega, 100),
         Theta |-> DivInt(theta, 365),
         Rho   |-> DivInt(rho, 100)]

\* A variant whose degenerate branch returns the intrinsic value as the price.
calculate_black_scholes_intrinsic(S, K, T, r, sigma, option_type) ==
    IF T <= 0 \/ sigma <= 0
    THEN Ok([Price |-> IF option_type = "Call" THEN FMax(Sub(S, K), 0)
                                               ELSE FMax(Sub(K, S), 0),
             Delta |-> 0, Gamma |-> 0, Vega |-> 0, Theta |-> 0, Rho |-> 0])
    ELSE IF K = 0 THEN Raise("ZeroDivisionError")
    ELSE Ok(BlackScholesResult(S, K, T, r, sigma, option_type,
                               D1(S, K, T, r, sigma), D2(S, K, T, r, sigma),
                               Exp(Neg(Mul(r, T))), Pdf(D1(S, K, T, r, sigma)), Sqrt(T)))

calculate_black_scholes(S, K, T, r, sigma, option_type) ==
    IF T <= 0 \/ sigma <= 0
    THEN Ok([Price |-> 0, Delta |-> 0, Gamma |-> 0, Vega |-> 0, Theta |-> 0, Rho |-> 0])
    ELSE IF K = 0 THEN Raise("ZeroDivisionError")   \* S / K on Python floats
    ELSE Ok(BlackScholesResult(S, K, T, r, sigma, option_type,
                               D1(S, K, T, r, sigma), D2(S, K, T, r, sigma),
                               Exp(Neg(Mul(r, T))), Pdf(D1(S, K, T, r, sigma)), Sqrt(T)))

(***************************************************************************)
(* 2. Numerical model (CRR binomial tree)                                  *)
(***************************************************************************)
RECURSIVE Pow(_, _)
\* x ** n for an integer n >= 0 (x ** 0 is 1, also for nan).
Pow(x, n) ==
    IF n <= 0 THEN Scale ELSE Mul(x, Pow(x, n - 1))

\* A variant in which node j has j up-moves instead of j down-moves.
StockNode_swapped(S, u, d, i, j) ==
    Mul(Mul(S, Pow(u, j)), Pow(d, i - j))

\* stock_tree[j, i] = S * u^(i-j) * d^j
StockNode(S, u, d, i, j) ==
    Mul(Mul(S, Pow(u, i - j)), Pow(d, j))

\* option_tree[:, N]: the terminal payoffs, node j in 0..N.
TerminalLayer(S, K, u, d, N, option_type) ==
    [j \in 0..N |->
        IF option_type = "Call"
        THEN FMax(Sub(StockNode(S, u, d, N, j), K), 0)
        ELSE FMax(Sub(K, StockNode(S, u, d, N, j)), 0)]

RECURSIVE BackwardInduction(_, _, _, _)
\* Columns i, i-1, ..., 0 of option_tree from column i+1 (`next`).
BackwardInduction(next, i, p, discount) ==
    IF i < 0 THEN next
    ELSE BackwardInduction(
             [j \in 0..i |->
                 Mul(discount, Add(Mul(p, next[j]), Mul(Sub(Scale, p), next[j + 1])))],
             i - 1, p, discount)

\* u = exp(sigma * sqrt(dt)) with dt = T / N, and d = 1 / u.
CrrUp(T, sigma, N) ==
    Exp(Mul(sigma, Sqrt(DivInt(T, N))))

CrrDown(T, sigma, N) ==
    Div(Scale, CrrUp(T, sigma, N))

\* p = (exp(r dt) - d) / (u - d)
CrrProb(r, dt, u, d) ==
    Div(Sub(Exp(Mul(r, dt)), d), Sub(u, d))

\* The two trees and the returned dict, from dt, u, d and p.
CrrLattice(S, K, r, N, option_type, dt, u, d, p) ==
    LET option_tree == BackwardInduction(TerminalLayer(S, K, u, d, N, option_type),
                                         N - 1, p, Exp(Neg(Mul(r, dt))))
    IN  [Price |-> option_tree[0], u |-> u, d |-> d, p |-> p]

CrrFromFactors(S, K, r, N, option_type, dt, u, d) ==
    CrrLattice(S, K, r, N, option_type, dt, u, d, CrrProb(r, dt, u, d))

\* A variant that computes dt = T / N before the degenerate branch.
calculate_crr_tree_dt_first(S, K, T, r, sigma, N, option_type) ==
    IF N = 0 THEN Raise("ZeroDivisionError")
    ELSE IF T <= 0 \/ sigma <= 0
    THEN Ok([Price |-> 0, u |-> 0, d |-> 0, p |-> 0])
    ELSE IF N < -1 THEN Raise("ValueError")
    ELSE IF N = -1 THEN Raise("IndexError")
    ELSE Ok(CrrFromFactors(S, K, r, N, option_type,
                           DivInt(T, N), CrrUp(T, sigma, N), CrrDown(T, sigma, N)))

calculate_crr_tree(S, K, T, r, sigma, N, option_type) ==
    IF T <= 0 \/ sigma <= 0
    THEN Ok([Price |-> 0, u |-> 0, d |-> 0, p |-> 0])
    ELSE IF N = 0 THEN Raise("ZeroDivisionError")    \* dt = T / N
    ELSE IF N < -1 THEN Raise("ValueError")          \* np.zeros: negative dimensions
    ELSE IF N = -1 THEN Raise("IndexError")          \* column N of an empty array
    ELSE Ok(CrrFromFactors(S, K, r, N, option_type,
                           DivInt(T, N), CrrUp(T, sigma, N), CrrDown(T, sigma, N)))

\* (Cu - Cd) / (Su - Sd), from the outcomes of the two sub-pricings.
CrrDeltaQuotient(Cu, Cd, Su, Sd) ==
    IF Cu.raised # "none" THEN Cu
    ELSE IF Cd.raised # "none" THEN Cd
    ELSE Ok(Div(Sub(Cu.ret.Price, Cd.ret.Price), Sub(Su, Sd)))

calculate_crr_delta(S, K, T, r, sigma, N, option_type) ==
    IF T <= 0 \/ sigma <= 0 \/ N < 1 THEN Ok(0)
    ELSE CrrDeltaQuotient(
             calculate_crr_tree(Mul(S, CrrUp(T, sigma, N)), K, T - DivInt(T, N),
                                r, sigma, N - 1, option_type),
             calculate_crr_tree(Mul(S, CrrDown(T, sigma, N)), K, T - DivInt(T, N),
                                r, sigma, N - 1, option_type),
             Mul(S, CrrUp(T, sigma, N)),
             Mul(S, CrrDown(T, sigma, N)))

(***************************************************************************)
(* 3. Monte Carlo simulation                                               *)
(***************************************************************************)
\* The stream of numpy's global generator: the standard-normal value it yields
\* in state s.  Each draw moves the generator to the next state.
NormalStream ==
    << -1200, 300, 1500, -400, 800, -1500, 100, 600 >>

NormalDraw(s) ==
    NormalStream[(s % Len(NormalStream)) + 1]

\* np.random.standard_normal((n_paths, n_steps)) with the generator in state s:
\* the matrix drawn, row by row, and the state it leaves.
standard_normal(s, n_paths, n_steps) ==
    [i \in 1..n_paths |-> [t \in 1..n_steps |-> NormalDraw(s + (i - 1) * n_steps + (t - 1))]]

GeneratorAfter(s, n_paths, n_steps) ==
    (s + n_paths * n_steps) % Len(NormalStream)

\* A variant without the -0.5 sigma^2 correction of the drift.
GbmFactor_no_correction(r, sigma, dt, Z) ==
    Exp(Add(Mul(r, dt), Mul(Mul(sigma, Sqrt(dt)), Z)))

\* exp((r - 0.5 sigma^2) dt + sigma sqrt(dt) Z)
GbmFactor(r, sigma, dt, Z) ==
    Exp(Add(Mul(Sub(r, Mul(Scale \div 2, Mul(sigma, sigma))), dt),
            Mul(Mul(sigma, Sqrt(dt)), Z)))

RECURSIVE GbmPath(_, _, _, _, _)
\* One row of paths: columns 0..Len(path)-1 are set, the others follow.
GbmPath(path, Zs, r, sigma, dt) ==
    IF Len(path) > Len(Zs) THEN path
    ELSE GbmPath(Append(path, Mul(path[Len(path)],
                                  GbmFactor(r, sigma, dt, Zs[Len(path)]))),
                 Zs, r, sigma, dt)

\* simulate_gbm_paths after its draw: the paths array from the matrix dW_.
\* Row i is a sequence holding columns 0..n_steps.
simulate_gbm_paths(S0, r, sigma, T, n_steps, n_paths, dW_) ==
    [i \in 1..n_paths |-> GbmPath(<<S0>>, dW_[i], r, sigma, DivInt(T, n_steps))]

\* A variant that uses the Black-Scholes delta until the time to maturity is 0.
NewDelta_until_expiry(S, K, ttm, r, sigma, option_type) ==
    IF ttm > 0
    THEN calculate_black_scholes(S, K, ttm, r, sigma, option_type).ret.Delta
    ELSE IF option_type = "Call"
         THEN (IF Gt(S, K) THEN Scale ELSE 0)
         ELSE (IF Gt(K, S) THEN -Scale ELSE 0)

\* The delta of steps 1..n_steps: Black-Scholes while more than 0.001 year
\* remains, the expiry rule after.
NewDelta(S, K, ttm, r, sigma, option_type) ==
    IF ttm > 1
    THEN calculate_black_scholes(S, K, ttm, r, sigma, option_type).ret.Delta
    ELSE IF option_type = "Call"
         THEN (IF Gt(S, K) THEN Scale ELSE 0)
         ELSE (IF Gt(K, S) THEN -Scale ELSE 0)

\* Step 0 of one path.
HedgeStep0(S, K, T, r, sigma, option_type, initial_price, delta) ==
    [deltas           |-> <<delta>>,
     cash_accounts    |-> <<Sub(initial_price, Mul(delta, S))>>,
     portfolio_values |-> <<Add(Mul(delta, S), Sub(initial_price, Mul(delta, S)))>>]

\* A variant in which the change of the hedge is not paid from the cash account.
HedgeStep_free_shares(h, t, S, r, dt, new_delta) ==
    LET cash == Mul(h.cash_accounts[t], Exp(Mul(r, dt)))
    IN  [deltas           |-> Append(h.deltas, new_delta),
         cash_accounts    |-> Append(h.cash_accounts, cash),
         portfolio_values |-> Append(h.portfolio_values, Add(Mul(new_delta, S), cash))]

\* A variant in which the cash account earns no interest.
HedgeStep_no_interest(h, t, S, r, dt, new_delta) ==
    LET cash == Sub(h.cash_accounts[t], Mul(Sub(new_delta, h.deltas[t]), S))
    IN  [deltas           |-> Append(h.deltas, new_delta),
         cash_accounts    |-> Append(h.cash_accounts, cash),
         portfolio_values |-> Append(h.portfolio_values, Add(Mul(new_delta, S), cash))]

\* Step t of one path, from its trajectories up to t - 1.
HedgeStep(h, t, S, r, dt, new_delta) ==
    LET cash == Sub(Mul(h.cash_accounts[t], Exp(Mul(r, dt))),
                    Mul(Sub(new_delta, h.deltas[t]), S))
    IN  [deltas           |-> Append(h.deltas, new_delta),
         cash_accounts    |-> Append(h.cash_accounts, cash),
         portfolio_values |-> Append(h.portfolio_values, Add(Mul(new_delta, S), cash))]

RECURSIVE HedgePath(_, _, _, _, _, _, _, _, _)
\* Steps t..n_steps of one path (path[t + 1] is the price at step t).
HedgePath(h, t, path, K, T, r, sigma, n_steps, option_type) ==
    IF t > n_steps THEN h
    ELSE HedgePath(HedgeStep(h, t, path[t + 1], r, DivInt(T, n_steps),
                             NewDelta(path[t + 1], K, T - t * DivInt(T, n_steps),
                                      r, sigma, option_type)),
                   t + 1, path, K, T, r, sigma, n_steps, option_type)

\* The three trajectories of every path.
HedgeTrajectories(paths, K, T, r, sigma, n_steps, option_type, initial_price) ==
    [i \in DOMAIN paths |->
        HedgePath(HedgeStep0(paths[i][1], K, T, r, sigma, option_type, initial_price,
                             calculate_black_scholes(paths[i][1], K, T, r, sigma,
                                                     option_type).ret.Delta),
                  1, paths[i], K, T, r, sigma, n_steps, option_type)]

\* final_payoffs and hedging_errors
Payoff(S_T, K, option_type) ==
    IF option_type = "Call" THEN FMax(Sub(S_T, K), 0) ELSE FMax(Sub(K, S_T), 0)

\* A variant that charges every path the payoff of the first path.
HedgingErrors_first_payoff(paths, traj, K, n_steps, option_type) ==
    [i \in DOMAIN paths |->
        Sub(traj[i].portfolio_values[n_steps + 1],
            Payoff(paths[1][n_steps + 1], K, option_type))]

HedgingErrors(paths, traj, K, n_steps, option_type) ==
    [i \in DOMAIN paths |->
        Sub(traj[i].portfolio_values[n_steps + 1],
            Payoff(paths[i][n_steps + 1], K, option_type))]

RECURSIVE SumRange(_, _, _)
\* xs[lo] + ... + xs[hi], added pairwise as numpy's add.reduce does.
SumRange(xs, lo, hi) ==
    IF lo > hi THEN 0
    ELSE IF lo = hi THEN xs[lo]
    ELSE Add(SumRange(xs, lo, (lo + hi) \div 2), SumRange(xs, ((lo + hi) \div 2) + 1, hi))

SumSeq(xs) ==
    SumRange(xs, 1, Len(xs))

\* np.mean: nan (and a RuntimeWarning) for an empty array.
Mean(xs) ==
    IF Len(xs) = 0 THEN NaN ELSE DivInt(SumSeq(xs), Len(xs))

SquaredDeviations(xs, m) ==
    [i \in DOMAIN xs |-> Mul(Sub(xs[i], m), Sub(xs[i], m))]

\* np.std: the population standard deviation.
Std(xs) ==
    IF Len(xs) = 0 THEN NaN ELSE Sqrt(Mean(SquaredDeviations(xs, Mean(xs))))

\* The place of xs[i] in the sorted array (equal values keep their order).
Rank(xs, i) ==
    Cardinality({j \in DOMAIN xs : xs[j] < xs[i] \/ (xs[j] = xs[i] /\ j < i)}) + 1

\* xs in ascending order.
Sorted(xs) ==
    [k \in DOMAIN xs |-> xs[CHOOSE i \in DOMAIN xs : Rank(xs, i) = k]]

\* Linear interpolation in the sorted values at the (scaled) position pos.
Interpolate(sorted, pos) ==
    IF pos % Scale = 0 THEN sorted[(pos \div Scale) + 1]
    ELSE Add(sorted[(pos \div Scale) + 1],
             Mul(pos % Scale,
                 Sub(sorted[(pos \div Scale) + 2], sorted[(pos \div Scale) + 1])))

\* np.percentile(xs, q), linear method: nan for an empty array or a nan entry.
Percentile(xs, q) ==
    IF Len(xs) = 0 \/ \E i \in DOMAIN xs : IsNaN(xs[i]) THEN NaN
    ELSE Interpolate(Sorted(xs), RDiv(q * (Len(xs) - 1) * Scale, 100))

\* np.linspace(0, T, n_steps + 1)
Linspace(T, n_steps) ==
    [k \in 1..(n_steps + 1) |-> IF k = n_steps + 1 THEN T ELSE MulInt(DivInt(T, n_steps), k - 1)]

\* rows[:limit]
FirstRows(rows, limit) ==
    [i \in 1..(IF Len(rows) < limit THEN Len(rows) ELSE limit) |-> rows[i]]

\* A variant with the limit of 100 paths that the comment in the code names.
display_limit_100(n_paths) ==
    IF n_paths < 100 THEN n_paths ELSE 100

display_limit(n_paths) ==
    IF n_paths < 50 THEN n_paths ELSE 50

\* The locals of a call that has not reached its return statement.
NoLocals ==
    [paths |-> <<>>, deltas |-> <<>>, cash_accounts |-> <<>>,
     portfolio_values |-> <<>>, hedging_errors |-> <<>>, initial_price |-> 0]

\* The local arrays as they stand at the return statement: paths, deltas,
\* cash_accounts, portfolio_values (all rows), hedging_errors and initial_price.
HedgeLocalsFrom(paths, traj, hedging_errors, initial_price) ==
    [paths            |-> paths,
     deltas           |-> [i \in DOMAIN traj |-> traj[i].deltas],
     cash_accounts    |-> [i \in DOMAIN traj |-> traj[i].cash_accounts],
     portfolio_values |-> [i \in DOMAIN traj |-> traj[i].portfolio_values],
     hedging_errors   |-> hedging_errors,
     initial_price    |-> initial_price]

HedgeLocalsOfPaths(paths, traj, K, n_steps, option_type, initial_price) ==
    HedgeLocalsFrom(paths, traj, HedgingErrors(paths, traj, K, n_steps, option_type),
                    initial_price)

HedgeLocalsOfPrice(paths, K, T, r, sigma, n_steps, option_type, initial_price) ==
    HedgeLocalsOfPaths(paths,
                       HedgeTrajectories(paths, K, T, r, sigma, n_steps, option_type,
                                         initial_price),
                       K, n_steps, option_type, initial_price)

\* The body of simulate_delta_hedging up to its return statement, after the
\* draw of its simulate_gbm_paths call (dt = T / n_steps has succeeded by then).
HedgeLocals(S0, K, T, r, sigma, n_steps, n_paths, option_type, dW_) ==
    IF calculate_black_scholes(S0, K, T, r, sigma, option_type).raised # "none"
    THEN NoLocals
    ELSE HedgeLocalsOfPrice(simulate_gbm_paths(S0, r, sigma, T, n_steps, n_paths, dW_),
                            K, T, r, sigma, n_steps, option_type,
                            calculate_black_scholes(S0, K, T, r, sigma, option_type).ret.Price)

\* The returned dict, from the locals.
HedgeReport(T, n_steps, n_paths, locals) ==
    [initial_price    |-> locals.initial_price,
     mean_error       |-> Mean(locals.hedging_errors),
     std_error        |-> Std(locals.hedging_errors),
     var_95           |-> Percentile(locals.hedging_errors, 5),
     paths            |-> FirstRows(locals.paths, display_limit(n_paths)),
     portfolio_values |-> FirstRows(locals.portfolio_values, display_limit(n_paths)),
     hedging_errors   |-> locals.hedging_errors,
     time_steps       |-> Linspace(T, n_steps)]

\* The outcome of simulate_delta_hedging from its locals: the exception of the
\* first pricing call, or the returned dict.
HedgeOutcome(S0, K, T, r, sigma, n_steps, n_paths, option_type, locals) ==
    IF calculate_black_scholes(S0, K, T, r, sigma, option_type).raised # "none"
    THEN calculate_black_scholes(S0, K, T, r, sigma, option_type)
    ELSE Ok(HedgeReport(T, n_steps, n_paths, locals))

\* simulate_delta_hedging after the draw of its simulate_gbm_paths call: the
\* outcome from the matrix dW_.
simulate_delta_hedging(S0, K, T, r, sigma, n_steps, n_paths, option_type, dW_) ==
    HedgeOutcome(S0, K, T, r, sigma, n_steps, n_paths, option_type,
                 HedgeLocals(S0, K, T, r, sigma, n_steps, n_paths, option_type, dW_))

(***************************************************************************)
(* 4. Scenario analysis                                                    *)
(***************************************************************************)
scenarios ==
    << [name |-> "Crash -20%", spot_chg |-> -200, vol_chg |-> 500],
       [name |-> "Bear -10%",  spot_chg |-> -100, vol_chg |-> 250],
       [name |-> "Base Case",  spot_chg |-> 0,    vol_chg |-> 0],
       [name |-> "Bull +10%",  spot_chg |-> 100,  vol_chg |-> -100],
       [name |-> "Rally +20%", spot_chg |-> 200,  vol_chg |-> -200] >>

\* A variant without the floor: the second argument as it is.
PyMax_no_floor(a, b) ==
    b

\* Python's max(a, b) on two floats.
PyMax(a, b) ==
    IF b > a THEN b ELSE a

\* The result record of one pass of the loop body, from the repriced outcome.
ScenarioRecord(scen, new_S, new_sigma, new_price, base_price) ==
    [name  |-> scen.name,
     spot  |-> new_S,
     vol   |-> new_sigma,
     price |-> new_price,
     pnl   |-> Sub(new_price, base_price)]

\* The shocked inputs of scenario `scen`.
ShockedSpot(scen, S) ==
    Mul(S, Scale + scen.spot_chg)

ShockedSigma(scen, sigma) ==
    PyMax(50, Mul(sigma, Scale + scen.vol_chg))

\* The repricing call of scenario `scen`.
Reprice(scen, S, K, T, r, sigma, option_type) ==
    calculate_black_scholes(ShockedSpot(scen, S), K, T, r, ShockedSigma(scen, sigma),
                            option_type)

\* The loop over the scenarios, given the outcomes of the six pricing calls:
\* the first call that raises ends the function.
StressLoop(S, sigma, base, new) ==
    IF base.raised # "none" THEN base
    ELSE IF \E i \in DOMAIN new : new[i].raised # "none"
         THEN new[CHOOSE i \in DOMAIN new :
                     /\ new[i].raised # "none"
                     /\ \A k \in 1..(i - 1) : new[k].raised = "none"]
    ELSE Ok([i \in DOMAIN new |->
                ScenarioRecord(scenarios[i], ShockedSpot(scenarios[i], S),
                               ShockedSigma(scenarios[i], sigma),
                               new[i].ret.Price, base.ret.Price)])

calculate_stress_scenarios(S, K, T, r, sigma, option_type) ==
    StressLoop(S, sigma,
               calculate_black_scholes(S, K, T, r, sigma, option_type),
               [i \in 1..Len(scenarios) |->
                   Reprice(scenarios[i], S, K, T, r, sigma, option_type)])

(***************************************************************************)
(* Pricing calls.  A behaviour of Spec is one call of one of the four      *)
(* deterministic operations on one argument vector; the arguments range    *)
(* over valid, degenerate (T <= 0, sigma <= 0, sigma under the resolution) *)
(* and invalid (S = 0, K = 0, N <= 0, unknown kind) values.                *)
(***************************************************************************)
MaxSteps ==
    3

SValues     == {0, 90 * Scale, 100 * Scale, 110 * Scale}
KValues     == {0, 100 * Scale}
TValues     == {-Scale \div 2, 0, Scale \div 10, Scale \div 2, Scale}
rValues     == {0, 50}
sigmaValues == {-200, 0, 1, 20, 200}
NValues     == -1..MaxSteps
Kinds       == {"Call", "Put", "Straddle"}

Pending ==
    [raised |-> "pending", ret |-> <<>>]

Threads ==
    {1, 2}

\* No call of fetch_data_with_retry is under way.
NoFetch ==
    [pc |-> "idle"]

\* The realtime endpoint is not in use.
NoQuote ==
    [pc |-> "idle"]

\* No call of rebalance_portfolio is under way.
NoRebalance ==
    [pc |-> "idle"]

Init ==
    /\ req \in [S : SValues, K : KValues, T : TValues, r : rValues,
                 sigma : sigmaValues, option_type : Kinds, N : NValues]
    /\ op = "none"
    /\ out = Pending
    /\ np_random = 0
    /\ pc = [c \in Threads |-> "idle"]
    /\ fn = [c \in Threads |-> "none"]
    /\ dW = [c \in Threads |-> <<>>]
    /\ result = [c \in Threads |-> Pending]
    /\ found = [c \in Threads |-> 0]
    /\ hedge = [c \in Threads |-> NoLocals]
    /\ fetch = NoFetch
    /\ quote = NoQuote
    /\ rebal = NoRebalance

BlackScholes ==
    /\ op = "none"
    /\ op' = "calculate_black_scholes"
    /\ out' = calculate_black_scholes(req.S, req.K, req.T, req.r, req.sigma, req.option_type)
    /\ UNCHANGED <<req, sim_vars, fetch, quote, rebal>>

CrrTree ==
    /\ op = "none"
    /\ op' = "calculate_crr_tree"
    /\ out' = calculate_crr_tree(req.S, req.K, req.T, req.r, req.sigma, req.N, req.option_type)
    /\ UNCHANGED <<req, sim_vars, fetch, quote, rebal>>

CrrDelta ==
    /\ op = "none"
    /\ op' = "calculate_crr_delta"
    /\ out' = calculate_crr_delta(req.S, req.K, req.T, req.r, req.sigma, req.N, req.option_type)
    /\ UNCHANGED <<req, sim_vars, fetch, quote, rebal>>

StressScenarios ==
    /\ op = "none"
    /\ op' = "calculate_stress_scenarios"
    /\ out' = calculate_stress_scenarios(req.S, req.K, req.T, req.r, req.sigma, req.option_type)
    /\ UNCHANGED <<req, sim_vars, fetch, quote, rebal>>

Next ==
    \/ BlackScholes
    \/ CrrTree
    \/ CrrDelta
    \/ StressScenarios

Spec ==
    Init /\ [][Next]_vars

(***************************************************************************)
(* Simulation calls.  A behaviour of SimSpec is up to two calls, one per   *)
(* thread of the caller's pool, of simulate_gbm_paths or                   *)
(* simulate_delta_hedging with the same arguments.  A call takes three     *)
(* steps: its entry up to the draw, the draw from np.random (one call of   *)
(* standard_normal, atomic), and the rest up to its return.                *)
(***************************************************************************)
MaxSimSteps ==
    2

MaxPaths ==
    2

MaxSeed ==
    0

SimInit ==
    /\ req \in [S0 : {100 * Scale}, K : {100 * Scale}, T : {2, Scale}, r : {50},
                sigma : {0, 1, 200, 5000}, n_steps : 0..MaxSimSteps, n_paths : 0..MaxPaths,
                option_type : {"Call", "Put"}]
    /\ op = "none"
    /\ out = Pending
    /\ np_random \in 0..MaxSeed
    /\ pc = [c \in Threads |-> "idle"]
    /\ fn = [c \in Threads |-> "none"]
    /\ dW = [c \in Threads |-> <<>>]
    /\ result = [c \in Threads |-> Pending]
    /\ found = [c \in Threads |-> 0]
    /\ hedge = [c \in Threads |-> NoLocals]
    /\ fetch = NoFetch
    /\ quote = NoQuote
    /\ rebal = NoRebalance

\* The entry of a call of function f, up to the draw: dt = T / n_steps (in
\* simulate_delta_hedging first, then in simulate_gbm_paths) and the allocation
\* of paths.
Enter(c, f) ==
    /\ pc[c] = "idle"
    /\ fn' = [fn EXCEPT ![c] = f]
    /\ found' = [found EXCEPT ![c] = np_random]
    /\ IF req.n_steps = 0
       THEN /\ pc' = [pc EXCEPT ![c] = "done"]
            /\ result' = [result EXCEPT ![c] = Raise("ZeroDivisionError")]
       ELSE /\ pc' = [pc EXCEPT ![c] = "draw"]
            /\ UNCHANGED result
    /\ UNCHANGED <<req, op, out, np_random, dW, hedge, fetch, quote, rebal>>

EnterGbm(c) ==
    Enter(c, "simulate_gbm_paths")

EnterHedge(c) ==
    Enter(c, "simulate_delta_hedging")

\* dW = np.random.standard_normal((n_paths, n_steps))
Draw(c) ==
    /\ pc[c] = "draw"
    /\ dW' = [dW EXCEPT ![c] = standard_normal(np_random, req.n_paths, req.n_steps)]
    /\ np_random' = GeneratorAfter(np_random, req.n_paths, req.n_steps)
    /\ pc' = [pc EXCEPT ![c] = "loop"]
    /\ UNCHANGED <<req, op, out, fn, result, found, hedge, fetch, quote, rebal>>

\* The loop over the steps and the return of simulate_gbm_paths.
ReturnGbm(c) ==
    /\ pc[c] = "loop"
    /\ fn[c] = "simulate_gbm_paths"
    /\ result' = [result EXCEPT ![c] =
                     Ok(simulate_gbm_paths(req.S0, req.r, req.sigma, req.T,
                                           req.n_steps, req.n_paths, dW[c]))]
    /\ pc' = [pc EXCEPT ![c] = "done"]
    /\ UNCHANGED <<req, op, out, np_random, fn, dW, found, hedge, fetch, quote, rebal>>

\* The rest of simulate_delta_hedging, from the return of its simulate_gbm_paths call.
ReturnHedge(c) ==
    /\ pc[c] = "loop"
    /\ fn[c] = "simulate_delta_hedging"
    /\ hedge' = [hedge EXCEPT ![c] =
                    HedgeLocals(req.S0, req.K, req.T, req.r, req.sigma,
                                req.n_steps, req.n_paths, req.option_type, dW[c])]
    /\ result' = [result EXCEPT ![c] =
                     HedgeOutcome(req.S0, req.K, req.T, req.r, req.sigma,
                                  req.n_steps, req.n_paths, req.option_type, hedge'[c])]
    /\ pc' = [pc EXCEPT ![c] = "done"]
    /\ UNCHANGED <<req, op, out, np_random, fn, dW, found, fetch, quote, rebal>>

SimNext ==
    \E c \in Threads :
        \/ EnterGbm(c)
        \/ EnterHedge(c)
        \/ Draw(c)
        \/ ReturnGbm(c)
        \/ ReturnHedge(c)

SimSpec ==
    SimInit /\ [][SimNext]_vars

(***************************************************************************)
(* Hedging calls with more paths than the charts show.  A behaviour of     *)
(* DisplaySpec is a behaviour of the simulation calls for a one-step       *)
(* request of 49, 50 or 51 paths, the sizes around the display limit of    *)
(* simulate_delta_hedging.                                                 *)
(***************************************************************************)
DisplayInit ==
    /\ req \in [S0 : {100 * Scale}, K : {100 * Scale}, T : {Scale}, r : {50},
                sigma : {200}, n_steps : {1}, n_paths : {49, 50, 51},
                option_type : {"Call", "Put"}]
    /\ op = "none"
    /\ out = Pending
    /\ np_random = 0
    /\ pc = [c \in Threads |-> "idle"]
    /\ fn = [c \in Threads |-> "none"]
    /\ dW = [c \in Threads |-> <<>>]
    /\ result = [c \in Threads |-> Pending]
    /\ found = [c \in Threads |-> 0]
    /\ hedge = [c \in Threads |-> NoLocals]
    /\ fetch = NoFetch
    /\ quote = NoQuote
    /\ rebal = NoRebalance

DisplaySpec ==
    DisplayInit /\ [][SimNext]_vars

(***************************************************************************)
(* Market-data download with retry (src/backend/main.py).  A behaviour of  *)
(* FetchSpec is one call of fetch_data_with_retry; what yf.download does   *)
(* at each attempt is the environment's choice.  fetch holds the locals    *)
(* (attempt, delay), the history of the call (log: what each download did, *)
(* slept: the argument of each time.sleep) and its outcome.                *)
(***************************************************************************)
MaxRetries ==
    4

\* What one call of yf.download can do: return a non-empty frame, an empty
\* frame or None, or raise.
Downloads ==
    {"frame", "empty", "None", "raises"}

\* The function entered: delay = 1, before the first pass of the loop.
FetchEntered ==
    [pc |-> "for", attempt |-> 0, delay |-> 1, log |-> <<>>, slept |-> <<>>,
     outcome |-> Pending]

FetchInit ==
    /\ req \in [ticker : {"AAPL", "XXXX"}, retries : (-1)..MaxRetries]
    /\ fetch = FetchEntered
    /\ op = "none"
    /\ out = Pending
    /\ np_random = 0
    /\ pc = [c \in Threads |-> "idle"]
    /\ fn = [c \in Threads |-> "none"]
    /\ dW = [c \in Threads |-> <<>>]
    /\ result = [c \in Threads |-> Pending]
    /\ found = [c \in Threads |-> 0]
    /\ hedge = [c \in Threads |-> NoLocals]
    /\ quote = NoQuote
    /\ rebal = NoRebalance

\* for attempt in range(retries): the next pass, or the raise after the loop.
ForAttempt ==
    /\ fetch.pc = "for"
    /\ IF fetch.attempt < req.retries
       THEN fetch' = [fetch EXCEPT !.pc = "try"]
       ELSE fetch' = [fetch EXCEPT !.pc = "done",
                                   !.outcome = Raise("HTTPException 503")]
    /\ UNCHANGED <<req, op, out, sim_vars, quote, rebal>>

\* df = yf.download(...)
Download ==
    /\ fetch.pc = "try"
    /\ \E did \in Downloads :
          fetch' = [fetch EXCEPT !.log = Append(@, did),
                                 !.pc = IF did = "raises" THEN "except" ELSE "check"]
    /\ UNCHANGED <<req, op, out, sim_vars, quote, rebal>>

\* The check of the frame: 404 (raised, caught and re-raised at once) or return df.
CheckFrame ==
    /\ fetch.pc = "check"
    /\ fetch' = [fetch EXCEPT
                    !.pc = "done",
                    !.outcome = IF fetch.log[Len(fetch.log)] \in {"None", "empty"}
                                THEN Raise("HTTPException 404")
                                ELSE Ok(fetch.log[Len(fetch.log)])]
    /\ UNCHANGED <<req, op, out, sim_vars, quote, rebal>>

\* A variant that sleeps after every failed attempt, the last included.
MoreAttempts_last_too(attempt, retries) ==
    attempt < retries

\* if attempt < retries - 1
MoreAttempts(attempt, retries) ==
    attempt < retries - 1

\* except Exception: sleep and double the delay, or give up with 503.
ExceptNetwork ==
    /\ fetch.pc = "except"
    /\ IF MoreAttempts(fetch.attempt, req.retries)
       THEN fetch' = [fetch EXCEPT !.slept = Append(@, fetch.delay),
                                   !.delay = 2 * @,
                                   !.attempt = @ + 1,
                                   !.pc = "for"]
       ELSE fetch' = [fetch EXCEPT !.pc = "done",
                                   !.outcome = Raise("HTTPException 503")]
    /\ UNCHANGED <<req, op, out, sim_vars, quote, rebal>>

FetchNext ==
    \/ ForAttempt
    \/ Download
    \/ CheckFrame
    \/ ExceptNetwork

FetchSpec ==
    FetchInit /\ [][FetchNext]_vars

(***************************************************************************)
(* Realtime quotes with a cache (src/backend/main.py).  A behaviour of     *)
(* QuoteSpec is a sequence of requests to get_realtime_asset, up to two at *)
(* a time (the endpoint is a plain def, which the server runs in a pool of *)
(* threads), while time passes.  quote holds the clock (time.time(), in    *)
(* seconds), the number of ticks so far, the module's quote_cache, and per *)
(* thread the locals of its request: ticker, current_time, the outcome and *)
(* hit (the outcome came from the cache).  What yfinance's fast_info       *)
(* yields at a fetch is the environment's choice.                          *)
(***************************************************************************)
MaxTicks ==
    4

CACHE_DURATION ==
    60

\* The tickers of the request paths.
Paths ==
    {"aapl", "AAPL", "msft"}

\* str.upper
Upper(t) ==
    IF t = "aapl" THEN "AAPL" ELSE IF t = "msft" THEN "MSFT" ELSE t

\* What stock.fast_info does at a fetch: its two values, a None value, a
\* KeyError, or an exception of the network layer.
FastInfos ==
    { [does |-> "values",     last_price |-> 101234, previous_close |-> 100000],
      [does |-> "price None", last_price |-> 0,      previous_close |-> 100000],
      [does |-> "close None", last_price |-> 101234, previous_close |-> 0],
      [does |-> "KeyError",   last_price |-> 0,      previous_close |-> 0],
      [does |-> "raises",     last_price |-> 0,      previous_close |-> 0] }

\* round(x, 2)
Round2(x) ==
    IF IsFinite(x) THEN 10 * RDiv(x, 10) ELSE x

\* The data dict of a fresh quote; last_updated is the time of the fetch.
QuoteData(ticker, price, prev_close, now) ==
    [symbol       |-> ticker,
     price        |-> Round2(price),
     change       |-> Round2(Sub(price, prev_close)),
     pct_change   |-> Round2(MulInt(Div(Sub(price, prev_close), prev_close), 100)),
     last_updated |-> now]

\* A request slot of the pool that serves no request.
NoRequest ==
    [pc |-> "idle", ticker |-> "", current_time |-> 0, outcome |-> Pending, hit |-> FALSE]

QuoteInit ==
    /\ quote = [clock |-> 0, ticks |-> 0, quote_cache |-> <<>>,
                call |-> [c \in Threads |-> NoRequest]]
    /\ req = [path |-> "/api/asset/{ticker}/realtime"]
    /\ op = "none"
    /\ out = Pending
    /\ np_random = 0
    /\ pc = [c \in Threads |-> "idle"]
    /\ fn = [c \in Threads |-> "none"]
    /\ dW = [c \in Threads |-> <<>>]
    /\ result = [c \in Threads |-> Pending]
    /\ found = [c \in Threads |-> 0]
    /\ hedge = [c \in Threads |-> NoLocals]
    /\ fetch = NoFetch
    /\ rebal = NoRebalance

\* A variant that still serves an entry at the second of its expiry.
Fresh_at_expiry(current_time, expiry) ==
    current_time <= expiry

\* if current_time < cached_item['expiry']
Fresh(current_time, expiry) ==
    current_time < expiry

\* The entry of a request up to its cache check: the cached data is returned,
\* or the request goes on to fetch.
CheckCache(c) ==
    /\ quote.call[c].pc = "idle"
    /\ \E t \in Paths :
          quote' = [quote EXCEPT !.call[c] =
              IF /\ Upper(t) \in DOMAIN quote.quote_cache
                 /\ Fresh(quote.clock, quote.quote_cache[Upper(t)].expiry)
              THEN [pc |-> "done", ticker |-> Upper(t), current_time |-> quote.clock,
                    outcome |-> Ok(quote.quote_cache[Upper(t)].data), hit |-> TRUE]
              ELSE [pc |-> "fetch", ticker |-> Upper(t), current_time |-> quote.clock,
                    outcome |-> Pending, hit |-> FALSE]]
    /\ UNCHANGED <<req, op, out, sim_vars, fetch, rebal>>

\* quote_cache[ticker] = {"data": data, "expiry": current_time + CACHE_DURATION}
Stored(cache, ticker, data, current_time) ==
    [k \in DOMAIN cache \cup {ticker} |->
        IF k = ticker THEN [data |-> data, expiry |-> current_time + CACHE_DURATION]
        ELSE cache[k]]

\* The fetch of a fresh quote: the data is stored and returned, or the request
\* ends in 404 (no such ticker, no price) or 503 (anything else).
FetchFresh(c) ==
    /\ quote.call[c].pc = "fetch"
    /\ \E info \in FastInfos :
          IF info.does = "values"
          THEN quote' = [quote EXCEPT
                   !.quote_cache = Stored(quote.quote_cache, quote.call[c].ticker,
                                          QuoteData(quote.call[c].ticker, info.last_price,
                                                    info.previous_close, quote.clock),
                                          quote.call[c].current_time),
                   !.call[c].pc = "done",
                   !.call[c].outcome = Ok(QuoteData(quote.call[c].ticker, info.last_price,
                                                    info.previous_close, quote.clock))]
          ELSE quote' = [quote EXCEPT
                   !.call[c].pc = "done",
                   !.call[c].outcome = IF info.does \in {"price None", "KeyError"}
                                       THEN Raise("HTTPException 404")
                                       ELSE Raise("HTTPException 503")]
    /\ UNCHANGED <<req, op, out, sim_vars, fetch, rebal>>

\* The response is sent; the thread is free for the next request.
Respond(c) ==
    /\ quote.call[c].pc = "done"
    /\ quote' = [quote EXCEPT !.call[c] = NoRequest]
    /\ UNCHANGED <<req, op, out, sim_vars, fetch, rebal>>

\* Half a minute passes.
Tick ==
    /\ quote.ticks < MaxTicks
    /\ quote' = [quote EXCEPT !.clock = @ + 30, !.ticks = @ + 1]
    /\ UNCHANGED <<req, op, out, sim_vars, fetch, rebal>>

QuoteNext ==
    \/ \E c \in Threads : CheckCache(c) \/ FetchFresh(c) \/ Respond(c)
    \/ Tick

QuoteSpec ==
    QuoteInit /\ [][QuoteNext]_vars

(***************************************************************************)
(* Periodic rebalancing (src/backend/portfolio.py).  A behaviour of        *)
(* RebalanceSpec is one call of rebalance_portfolio: req holds the returns *)
(* frame (its index of dates and one row of asset returns per date), the   *)
(* initial weights and the frequency; rebal holds the locals of the loop   *)
(* over the dates and i, the number of dates done.  A date is a record of  *)
(* year, month and day.                                                    *)
(***************************************************************************)
MaxDates ==
    3

\* The trading days a returns frame is taken from, in calendar order.
Calendar ==
    << [y |-> 2023, m |-> 1, d |-> 31], [y |-> 2023, m |-> 2, d |-> 28],
       [y |-> 2023, m |-> 3, d |-> 1],  [y |-> 2023, m |-> 4, d |-> 28],
       [y |-> 2023, m |-> 5, d |-> 2],  [y |-> 2024, m |-> 1, d |-> 31] >>

\* The rows of a returns frame of two assets: (+10%, -5%), (+5%, -1%), and the
\* total loss of both.
ReturnRows ==
    { <<100, -50>>, <<50, -10>>, <<-Scale, -Scale>> }

\* The increasing choices of n days k1 < k2 < ... of the calendar.
IncreasingDays(n) ==
    { ks \in [1..n -> 1..Len(Calendar)] : \A a \in 1..(n - 1) : ks[a] < ks[a + 1] }

Frames ==
    UNION { { [index |-> [a \in 1..n |-> Calendar[ks[a]]], rows |-> rows] :
                ks \in IncreasingDays(n), rows \in [1..n -> ReturnRows] } :
            n \in 1..MaxDates }

\* The days of month m of year y.
DaysIn(y, m) ==
    IF m = 2 THEN (IF y % 4 = 0 THEN 29 ELSE 28)
    ELSE IF m \in {4, 6, 9, 11} THEN 30
    ELSE 31

\* date + pd.DateOffset(months=n): the same day n months on, or the last day
\* of that month if it has no such day.
AddMonths(date, n) ==
    [y |-> date.y + ((date.m - 1 + n) \div 12),
     m |-> ((date.m - 1 + n) % 12) + 1,
     d |-> IF date.d <= DaysIn(date.y + ((date.m - 1 + n) \div 12), ((date.m - 1 + n) % 12) + 1)
           THEN date.d
           ELSE DaysIn(date.y + ((date.m - 1 + n) \div 12), ((date.m - 1 + n) % 12) + 1)]

\* The months of rebalance_offset (DateOffset(years=1) is twelve months).
OffsetMonths(frequency) ==
    IF frequency = "monthly" THEN 1 ELSE IF frequency = "quarterly" THEN 3 ELSE 12

\* a >= b on dates
NotBefore(a, b) ==
    (a.y * 10000) + (a.m * 100) + a.d >= (b.y * 10000) + (b.m * 100) + b.d

\* if date >= last_rebalance_date + rebalance_offset
RebalanceDue(date, last_rebalance_date, frequency) ==
    NotBefore(date, AddMonths(last_rebalance_date, OffsetMonths(frequency)))

\* (returns.loc[date] * current_weights).sum()
DailyReturn(row, weights) ==
    SumSeq([k \in DOMAIN weights |-> Mul(row[k], weights[k])])

\* current_weights * (1 + returns.loc[date]) / (1 + daily_return), unless
\* daily_return is -1.
Drifted(weights, row, daily_return) ==
    IF daily_return # -Scale
    THEN [k \in DOMAIN weights |->
             Div(Mul(weights[k], Add(Scale, row[k])), Add(Scale, daily_return))]
    ELSE weights

\* The call at its first statement.
RebalanceEntered ==
    [pc |-> "offset", i |-> 0, current_weights |-> <<>>,
     last_rebalance_date |-> Calendar[1], portfolio_returns |-> <<>>, outcome |-> Pending]

RebalanceInit ==
    /\ req \in [returns : Frames, initial_weights : {<<500, 500>>, <<300, 700>>},
                frequency : {"monthly", "quarterly", "yearly", "never"}]
    /\ rebal = RebalanceEntered
    /\ op = "none"
    /\ out = Pending
    /\ np_random = 0
    /\ pc = [c \in Threads |-> "idle"]
    /\ fn = [c \in Threads |-> "none"]
    /\ dW = [c \in Threads |-> <<>>]
    /\ result = [c \in Threads |-> Pending]
    /\ found = [c \in Threads |-> 0]
    /\ hedge = [c \in Threads |-> NoLocals]
    /\ fetch = NoFetch
    /\ quote = NoQuote

\* The choice of rebalance_offset: the loop is set up, or (any other
\* frequency) the weighted sums of the rows are returned at once.
SetOffset ==
    /\ rebal.pc = "offset"
    /\ IF req.frequency \in {"monthly", "quarterly", "yearly"}
       THEN rebal' = [rebal EXCEPT !.pc = "for",
                                   !.current_weights = req.initial_weights,
                                   !.last_rebalance_date = req.returns.index[1]]
       ELSE rebal' = [rebal EXCEPT
                         !.pc = "done",
                         !.outcome = Ok([a \in DOMAIN req.returns.rows |->
                                            DailyReturn(req.returns.rows[a],
                                                        req.initial_weights)])]
    /\ UNCHANGED <<req, op, out, sim_vars, fetch, quote>>

\* The weights of a date: the initial ones if a rebalance is due.
InForce(date, locals, frequency, initial_weights) ==
    IF RebalanceDue(date, locals.last_rebalance_date, frequency)
    THEN initial_weights
    ELSE locals.current_weights

\* One pass of the loop: the date after the i dates done.
ForDate ==
    /\ rebal.pc = "for"
    /\ rebal.i < Len(req.returns.index)
    /\ rebal' = [rebal EXCEPT
          !.i = @ + 1,
          !.last_rebalance_date =
              IF RebalanceDue(req.returns.index[rebal.i + 1], @, req.frequency)
              THEN req.returns.index[rebal.i + 1] ELSE @,
          !.portfolio_returns =
              Append(@, DailyReturn(req.returns.rows[rebal.i + 1],
                                    InForce(req.returns.index[rebal.i + 1], rebal,
                                            req.frequency, req.initial_weights))),
          !.current_weights =
              Drifted(InForce(req.returns.index[rebal.i + 1], rebal,
                              req.frequency, req.initial_weights),
                      req.returns.rows[rebal.i + 1],
                      DailyReturn(req.returns.rows[rebal.i + 1],
                                  InForce(req.returns.index[rebal.i + 1], rebal,
                                          req.frequency, req.initial_weights)))]
    /\ UNCHANGED <<req, op, out, sim_vars, fetch, quote>>

\* return portfolio_returns
ReturnSeries ==
    /\ rebal.pc = "for"
    /\ rebal.i = Len(req.returns.index)
    /\ rebal' = [rebal EXCEPT !.pc = "done", !.outcome = Ok(rebal.portfolio_returns)]
    /\ UNCHANGED <<req, op, out, sim_vars, fetch, quote>>

RebalanceNext ==
    \/ SetOffset
    \/ ForDate
    \/ ReturnSeries

RebalanceSpec ==
    RebalanceInit /\ [][RebalanceNext]_vars

(***************************************************************************)
(* Claims about the pricing calls (checked under Spec)                     *)
(***************************************************************************)
ValidKind ==
    req.option_type \in {"Call", "Put"}

\* C1: calculate_black_scholes called with T <= 0 or sigma <= 0 does not
\* raise, whatever S, K, r and the kind, and returns all six fields
\* (Price, Delta, Gamma, Vega, Theta, Rho), each exactly 0.
C1_DegenerateAllZero ==
    (op = "calculate_black_scholes" /\ (req.T <= 0 \/ req.sigma <= 0)) =>
        /\ out.raised = "none"
        /\ DOMAIN out.ret = {"Price", "Delta", "Gamma", "Vega", "Theta", "Rho"}
        /\ \A f \in DOMAIN out.ret : out.ret[f] = 0

\* An in-the-money call at expiry (intrinsic value 10) priced at 0.
C1_Witness ==
    /\ op = "calculate_black_scholes"
    /\ req.T = 0 /\ req.sigma > 0
    /\ req.option_type = "Call" /\ req.K > 0 /\ req.S > req.K
    /\ out.raised = "none" /\ out.ret.Price = 0

\* C2: for valid inputs (S > 0, K > 0, T >= 0, sigma >= 0, either kind) the
\* "Base Case" entry of calculate_stress_scenarios has pnl exactly 0.
C2_BaseCasePnlZero ==
    (/\ op = "calculate_stress_scenarios"
     /\ req.S > 0 /\ req.K > 0 /\ req.T >= 0 /\ req.sigma >= 0 /\ ValidKind) =>
        /\ out.raised = "none"
        /\ \A i \in DOMAIN out.ret :
              out.ret[i].name = "Base Case" => out.ret[i].pnl = 0

\* C3: an option kind that is neither Call nor Put is rejected with an
\* InvalidArgument failure by every operation that takes a kind.
C3_UnknownKindRejected ==
    (op # "none" /\ ~ValidKind) => out.raised = "InvalidArgument"

\* C4: every call ends in a result or in an InvalidArgument failure, and a
\* call with non-positive S or K, or with a non-positive step count, ends in
\* InvalidArgument.
C4_ResultOrInvalidArgument ==
    op # "none" =>
        /\ out.raised \in {"none", "InvalidArgument"}
        /\ (\/ req.S <= 0
            \/ req.K <= 0
            \/ (op \in {"calculate_crr_tree", "calculate_crr_delta"} /\ req.N <= 0))
           => out.raised = "InvalidArgument"

\* C5: calculate_crr_delta never surfaces a fault or a NaN/inf value, and
\* returns 0 whenever the bumped spots S*u and S*d coincide.
C5_CrrDeltaGuarded ==
    (/\ op = "calculate_crr_delta"
     /\ req.S > 0 /\ req.K > 0 /\ req.T >= 0 /\ req.sigma >= 0 /\ ValidKind) =>
        /\ out.raised = "none"
        /\ IsFinite(out.ret)
        /\ (/\ req.T > 0 /\ req.sigma > 0 /\ req.N >= 1
            /\ Mul(req.S, CrrUp(req.T, req.sigma, req.N))
                 = Mul(req.S, CrrDown(req.T, req.sigma, req.N)))
           => out.ret = 0

\* C6: calculate_crr_tree called with T <= 0 or sigma <= 0 returns Price = 0
\* and u = d = p = 0 without raising, whatever S, K, r, the kind and the step
\* count (0 included).
C6_CrrDegenerateZero ==
    (op = "calculate_crr_tree" /\ (req.T <= 0 \/ req.sigma <= 0)) =>
        /\ out.raised = "none"
        /\ DOMAIN out.ret = {"Price", "u", "d", "p"}
        /\ out.ret.Price = 0 /\ out.ret.u = 0 /\ out.ret.d = 0 /\ out.ret.p = 0

\* A degenerate call with a step count of 0 that returned.
C6_Witness ==
    /\ op = "calculate_crr_tree"
    /\ req.T <= 0 /\ req.sigma > 0 /\ req.N = 0
    /\ out.raised = "none" /\ out.ret.Price = 0

\* C7: calculate_stress_scenarios returns exactly five results in the order
\* Crash, Bear, Base, Bull, Rally with shocks (-20%,+50%), (-10%,+25%),
\* (0%,0%), (+10%,-10%), (+20%,-20%); for each, spot = S*(1+spot shock),
\* vol = max(0.05, sigma*(1+vol shock)) >= 0.05, price is the Black-Scholes
\* price at (spot, K, T, r, vol, kind) and pnl = price - basePrice, with
\* basePrice priced once at the unshocked, unfloored inputs.  It returns
\* whenever K # 0.
C7_StressGrid ==
    op = "calculate_stress_scenarios" =>
        LET names == <<"Crash -20%", "Bear -10%", "Base Case", "Bull +10%", "Rally +20%">>
            spot_shock == <<-200, -100, 0, 100, 200>>
            vol_shock  == <<500, 250, 0, -100, -200>>
            basePrice  == calculate_black_scholes(req.S, req.K, req.T, req.r, req.sigma,
                                                  req.option_type).ret.Price
        IN  /\ req.K # 0 => out.raised = "none"
            /\ out.raised = "none" =>
                 /\ DOMAIN out.ret = 1..5
                 /\ \A i \in 1..5 :
                      LET e == out.ret[i]
                          shocked == Mul(req.sigma, Scale + vol_shock[i])
                      IN  /\ e.name = names[i]
                          /\ e.spot = Mul(req.S, Scale + spot_shock[i])
                          /\ e.vol = (IF shocked >= 50 THEN shocked ELSE 50)
                          /\ e.vol >= 50
                          /\ e.price = calculate_black_scholes(
                                           e.spot, req.K, req.T, req.r, e.vol,
                                           req.option_type).ret.Price
                          /\ e.pnl = Sub(e.price, basePrice)

\* A stress test of a 2% volatility: every scenario is priced at the floor.
C7_Witness ==
    /\ op = "calculate_stress_scenarios"
    /\ req.sigma = 20 /\ req.T > 0 /\ req.S > 0
    /\ out.raised = "none"
    /\ out.ret[1].vol = 50 /\ out.ret[5].vol = 50
    /\ out.ret[1].pnl # 0

(***************************************************************************)
(* Claims about the simulation calls (checked under SimSpec)               *)
(***************************************************************************)
Returned(c) ==
    pc[c] = "done" /\ result[c].raised = "none"

\* The value a call of thread c returns when the draws are taken from the
\* generator in state s.
ValueFrom(c, s) ==
    IF fn[c] = "simulate_gbm_paths"
    THEN simulate_gbm_paths(req.S0, req.r, req.sigma, req.T, req.n_steps, req.n_paths,
                            standard_normal(s, req.n_paths, req.n_steps))
    ELSE simulate_delta_hedging(req.S0, req.K, req.T, req.r, req.sigma, req.n_steps,
                                req.n_paths, req.option_type,
                                standard_normal(s, req.n_paths, req.n_steps)).ret

\* C8: two invocations of simulate_gbm_paths (or of simulate_delta_hedging)
\* with identical arguments and an identical supplied random source return
\* identical results.  (The functions take no random source: the arguments
\* are all a caller supplies.)
C8_SameArgumentsSameResult ==
    \A c1, c2 \in Threads :
        (Returned(c1) /\ Returned(c2) /\ fn[c1] = fn[c2]) =>
            result[c1].ret = result[c2].ret

\* C9: no operation reads or writes process-wide mutable state: in every
\* interleaving of two invocations, each invocation's result is the one it
\* returns when it runs alone from the state it was invoked in.
C9_ResultAsIfAlone ==
    \A c \in Threads :
        Returned(c) => result[c].ret = ValueFrom(c, found[c])

\* C10: the result of simulate_delta_hedging holds, for the retained paths,
\* the delta, cash-account and portfolio-value trajectories (n_steps + 1
\* entries per path) together with the mean, the standard deviation and the
\* 5th percentile of the hedging error and the per-path error vector.
C10_HedgeResultComplete ==
    \A c \in Threads :
        (Returned(c) /\ fn[c] = "simulate_delta_hedging" /\ req.n_paths >= 1) =>
            /\ {"deltas", "cash_accounts", "portfolio_values",
                "mean_error", "std_error", "var_95", "hedging_errors"}
                   \subseteq DOMAIN result[c].ret
            /\ \A f \in {"deltas", "cash_accounts", "portfolio_values"} :
                  /\ Len(result[c].ret[f]) = display_limit(req.n_paths)
                  /\ \A i \in DOMAIN result[c].ret[f] :
                        Len(result[c].ret[f][i]) = req.n_steps + 1
            /\ Len(result[c].ret.hedging_errors) = req.n_paths

\* A call of simulate_delta_hedging by thread c that has returned; its locals
\* are hedge[c].
Hedged(c) ==
    Returned(c) /\ fn[c] = "simulate_delta_hedging"

\* The expiry rule: Call 1 if S > K else 0, Put -1 if S < K else 0.
ExpiryDelta(S) ==
    IF req.option_type = "Call"
    THEN (IF Gt(S, req.K) THEN Scale ELSE 0)
    ELSE (IF Gt(req.K, S) THEN -Scale ELSE 0)

\* C11: in simulate_delta_hedging with a volatility of zero or effectively
\* zero (at most one unit of the resolution), the delta of every step is the
\* expiry-rule value or 0, and no delta, cash, portfolio or hedging-error
\* value is NaN.
C11_ZeroVolNoNaN ==
    \A c \in Threads :
        (Hedged(c) /\ req.sigma >= 0 /\ req.sigma <= 1) =>
            \A i \in DOMAIN hedge[c].paths :
                /\ ~IsNaN(hedge[c].hedging_errors[i])
                /\ \A t \in DOMAIN hedge[c].paths[i] :
                      /\ hedge[c].deltas[i][t] \in {0, ExpiryDelta(hedge[c].paths[i][t])}
                      /\ ~IsNaN(hedge[c].deltas[i][t])
                      /\ ~IsNaN(hedge[c].cash_accounts[i][t])
                      /\ ~IsNaN(hedge[c].portfolio_values[i][t])

\* The locals of a run of the hedge on the single path `row`, the contract
\* and the premium being those of the call.
Alone(row, premium) ==
    HedgeLocalsOfPrice(<<row>>, req.K, req.T, req.r, req.sigma, req.n_steps,
                       req.option_type, premium)

\* Path i of the locals, as the locals of a run on a single path.
RowAlone(locals, i) ==
    [paths            |-> <<locals.paths[i]>>,
     deltas           |-> <<locals.deltas[i]>>,
     cash_accounts    |-> <<locals.cash_accounts[i]>>,
     portfolio_values |-> <<locals.portfolio_values[i]>>,
     hedging_errors   |-> <<locals.hedging_errors[i]>>,
     initial_price    |-> locals.initial_price]

\* C12: in simulate_delta_hedging the delta, cash and portfolio trajectories
\* and the hedging error of path i depend only on path i's own prices and on
\* the contract: they are those of a run on path i alone, whatever the other
\* paths of the call are.
C12_PathIndependent ==
    \A c \in Threads :
        Hedged(c) =>
            \A i \in DOMAIN hedge[c].paths :
                RowAlone(hedge[c], i) = Alone(hedge[c].paths[i], hedge[c].initial_price)

\* A call with two paths of different prices and different hedging errors.
C12_Witness ==
    \E c \in Threads :
        /\ Hedged(c) /\ req.n_paths >= 2 /\ req.n_steps >= 2
        /\ hedge[c].paths[1] # hedge[c].paths[2]
        /\ hedge[c].hedging_errors[1] # hedge[c].hedging_errors[2]
        /\ hedge[c].deltas[1] # hedge[c].deltas[2]

(***************************************************************************)
(* Further claims about the pricing calls (checked under Spec)             *)
(***************************************************************************)
\* Valid inputs of the normal branch.
ValidNormal ==
    req.S > 0 /\ req.K > 0 /\ req.T > 0 /\ req.sigma > 0

\* The price of the other kind on the same inputs.
OtherKindPrice ==
    calculate_black_scholes(req.S, req.K, req.T, req.r, req.sigma,
                            IF req.option_type = "Call" THEN "Put" ELSE "Call").ret.Price

\* Call price - Put price - (S - K e^(-rT)), on the inputs of the call.
ParityGap ==
    LET this == out.ret.Price
        call == IF req.option_type = "Call" THEN this ELSE OtherKindPrice
        put  == IF req.option_type = "Call" THEN OtherKindPrice ELSE this
    IN  Sub(Sub(call, put),
            Sub(req.S, Mul(req.K, Exp(Neg(Mul(req.r, req.T))))))

\* C13: put-call parity.  For valid inputs with T > 0 and sigma > 0 the Call
\* price minus the Put price equals S - K e^(-rT) within the tolerance of the
\* arithmetic (here 5 units of the resolution).
C13_PutCallParity ==
    (op = "calculate_black_scholes" /\ ValidNormal /\ ValidKind) =>
        /\ out.raised = "none"
        /\ IsFinite(ParityGap)
        /\ Abs(ParityGap) <= 5

\* C14: for valid inputs, the degenerate ones included, the Delta of
\* calculate_black_scholes is in [0, 1] for a Call and in [-1, 0] for a Put,
\* and Gamma >= 0 and Vega >= 0.
C14_GreekBounds ==
    (/\ op = "calculate_black_scholes"
     /\ req.S > 0 /\ req.K > 0 /\ req.T >= 0 /\ req.sigma >= 0 /\ ValidKind) =>
        /\ out.raised = "none"
        /\ ~IsNaN(out.ret.Delta) /\ ~IsNaN(out.ret.Gamma) /\ ~IsNaN(out.ret.Vega)
        /\ req.option_type = "Call" => (0 <= out.ret.Delta /\ out.ret.Delta <= Scale)
        /\ req.option_type = "Put" => (-Scale <= out.ret.Delta /\ out.ret.Delta <= 0)
        /\ out.ret.Gamma >= 0
        /\ out.ret.Vega >= 0

\* The factors of the reference lattice: dt = T/steps, u = e^(sigma sqrt(dt)),
\* d = 1/u, p = (e^(r dt) - d)/(u - d) and the discount e^(-r dt).
RefFactors ==
    LET dt == DivInt(req.T, req.N)
        u  == Exp(Mul(req.sigma, Sqrt(dt)))
        d  == Div(Scale, u)
    IN  [u |-> u, d |-> d,
         p |-> Div(Sub(Exp(Mul(req.r, dt)), d), Sub(u, d)),
         discount |-> Exp(Neg(Mul(req.r, dt)))]

RECURSIVE RefValue(_, _, _)
\* The value of node j of step i in the reference backward induction: the
\* payoff at the terminal layer, else the discounted expectation of the two
\* nodes of the next layer.
RefValue(j, i, f) ==
    IF i >= req.N
    THEN LET underlying == Mul(Mul(req.S, Pow(f.u, req.N - j)), Pow(f.d, j))
         IN  IF req.option_type = "Call"
             THEN FMax(Sub(underlying, req.K), 0)
             ELSE FMax(Sub(req.K, underlying), 0)
    ELSE Mul(f.discount, Add(Mul(f.p, RefValue(j, i + 1, f)),
                             Mul(Sub(Scale, f.p), RefValue(j + 1, i + 1, f))))

\* C16: for T > 0, sigma > 0 and steps >= 1 the Price of calculate_crr_tree
\* is the value at node (0,0) of the reference backward induction (as a
\* value: nan where the recurrence gives nan), and u, d, p are the factors
\* of the reference.
C16_CrrBackwardInduction ==
    (op = "calculate_crr_tree" /\ req.T > 0 /\ req.sigma > 0 /\ req.N >= 1 /\ ValidKind) =>
        /\ out.raised = "none"
        /\ out.ret.Price = RefValue(0, 0, RefFactors)
        /\ out.ret.u = RefFactors.u
        /\ out.ret.d = RefFactors.d
        /\ out.ret.p = RefFactors.p

\* A three-step tree of an at-the-money put with a risk-neutral probability
\* strictly between 0 and 1 other than 1/2 and a positive price.
C16_Witness ==
    /\ op = "calculate_crr_tree"
    /\ req.N = 3 /\ req.T = Scale /\ req.sigma = 200 /\ req.r = 50
    /\ req.S = 100 * Scale /\ req.K = 100 * Scale /\ req.option_type = "Put"
    /\ out.raised = "none"
    /\ out.ret.p > 0 /\ out.ret.p < Scale /\ out.ret.p # Scale \div 2
    /\ out.ret.Price > 0 /\ IsFinite(out.ret.Price)

(***************************************************************************)
(* Claims about fetch_data_with_retry (checked under FetchSpec)            *)
(***************************************************************************)
RECURSIVE Pow2(_)
Pow2(k) ==
    IF k <= 0 THEN 1 ELSE 2 * Pow2(k - 1)

\* The number of attempts a call may make at most.
AttemptsAllowed ==
    IF req.retries > 0 THEN req.retries ELSE 0

\* C15: fetch_data_with_retry makes at most `retries` downloads; a download
\* that returns None or an empty frame raises HTTP 404 at once, with no
\* further attempt; a download that raises is retried after a sleep of 1, 2,
\* 4, ... seconds, with no sleep after the last attempt; when the last
\* attempt raises too the call raises HTTP 503; it returns only a non-empty
\* frame; with retries <= 0 it raises 503 without any download.
C15_FetchRetry ==
    LET n == Len(fetch.log)
    IN  /\ n <= AttemptsAllowed
        /\ \A k \in 1..(n - 1) : fetch.log[k] = "raises"
        /\ \A k \in DOMAIN fetch.slept : fetch.slept[k] = Pow2(k - 1)
        /\ Len(fetch.slept) <= n
        /\ Len(fetch.slept) < AttemptsAllowed \/ AttemptsAllowed = 0
        /\ fetch.pc \in {"check", "except", "done"} /\ n > 0 => Len(fetch.slept) = n - 1
        /\ fetch.pc = "check" => fetch.log[n] # "raises"
        /\ fetch.pc = "done" =>
              /\ fetch.outcome.raised \in {"none", "HTTPException 404", "HTTPException 503"}
              /\ fetch.outcome.raised = "none" <=> (n > 0 /\ fetch.log[n] = "frame")
              /\ fetch.outcome.raised = "none" => fetch.outcome.ret = "frame"
              /\ fetch.outcome.raised = "HTTPException 404"
                    <=> (n > 0 /\ fetch.log[n] \in {"None", "empty"})
              /\ fetch.outcome.raised = "HTTPException 503"
                    <=> (n = AttemptsAllowed /\ \A k \in 1..n : fetch.log[k] = "raises")
        /\ req.retries <= 0 => n = 0

\* Every attempt failed: the sleeps were 1, 2 and 4 seconds and the call
\* ended with 503 right after the last attempt.
C15_Witness ==
    /\ req.retries = 4
    /\ fetch.pc = "done"
    /\ fetch.log = <<"raises", "raises", "raises", "raises">>
    /\ fetch.slept = <<1, 2, 4>>
    /\ fetch.outcome.raised = "HTTPException 503"

\* C23: calculate_crr_delta with N = 1, T > 0 and sigma > 0 returns 0 for
\* every S, K, r and kind (here: every S > 0): both sub-prices take the
\* degenerate branch of calculate_crr_tree and the quotient is 0.
C23_OneStepDeltaZero ==
    (/\ op = "calculate_crr_delta"
     /\ req.N = 1 /\ req.T > 0 /\ req.sigma > 0 /\ req.S > 0) =>
        /\ calculate_crr_tree(Mul(req.S, CrrUp(req.T, req.sigma, 1)), req.K,
                              req.T - DivInt(req.T, 1), req.r, req.sigma, 0,
                              req.option_type)
              = Ok([Price |-> 0, u |-> 0, d |-> 0, p |-> 0])
        /\ calculate_crr_tree(Mul(req.S, CrrDown(req.T, req.sigma, 1)), req.K,
                              req.T - DivInt(req.T, 1), req.r, req.sigma, 0,
                              req.option_type)
              = Ok([Price |-> 0, u |-> 0, d |-> 0, p |-> 0])
        /\ out = Ok(0)

(***************************************************************************)
(* Further claims about the simulation calls (checked under SimSpec)       *)
(***************************************************************************)
\* A call of simulate_gbm_paths by thread c that has returned.
Simulated(c) ==
    Returned(c) /\ fn[c] = "simulate_gbm_paths"

\* exp((r - 0.5 sigma^2) dt + sigma sqrt(dt) Z) with dt = T / n_steps.
StepFactor(Z) ==
    LET dt == DivInt(req.T, req.n_steps)
    IN  Exp(Add(Mul(Sub(req.r, Mul(Scale \div 2, Mul(req.sigma, req.sigma))), dt),
                Mul(Mul(req.sigma, Sqrt(dt)), Z)))

\* The array has n_paths rows and n_steps + 1 columns, column 0 is S0, and
\* the price of (path, t) is the price of (path, t - 1) times the step factor
\* of the draw of (path, t), of which there is one per pair.
GbmShapeAndRecurrence(c) ==
    /\ DOMAIN result[c].ret = 1..req.n_paths
    /\ DOMAIN dW[c] = 1..req.n_paths
    /\ \A i \in 1..req.n_paths :
          /\ DOMAIN result[c].ret[i] = 1..(req.n_steps + 1)
          /\ DOMAIN dW[c][i] = 1..req.n_steps
          /\ result[c].ret[i][1] = req.S0
          /\ \A t \in 1..req.n_steps :
                result[c].ret[i][t + 1]
                    = Mul(result[c].ret[i][t], StepFactor(dW[c][i][t]))

Premium ==
    calculate_black_scholes(req.S0, req.K, req.T, req.r, req.sigma, req.option_type).ret

\* C18: at step 0 of simulate_delta_hedging every path has delta0 = the
\* Black-Scholes delta at (S0, K, T, r, sigma, kind), cash0 = premium -
\* delta0 S0 and portfolio0 = delta0 S0 + cash0, and portfolio0 == the
\* premium, the returned initial_price, as floats compare (a nan is equal to
\* nothing, itself included).
C18_StepZero ==
    \A c \in Threads :
        Hedged(c) =>
            /\ result[c].ret.initial_price = Premium.Price
            /\ \A i \in 1..req.n_paths :
                  /\ hedge[c].paths[i][1] = req.S0
                  /\ hedge[c].deltas[i][1] = Premium.Delta
                  /\ hedge[c].cash_accounts[i][1]
                        = Sub(Premium.Price, Mul(hedge[c].deltas[i][1], req.S0))
                  /\ hedge[c].portfolio_values[i][1]
                        = Add(Mul(hedge[c].deltas[i][1], req.S0),
                              hedge[c].cash_accounts[i][1])
                  /\ ~IsNaN(hedge[c].portfolio_values[i][1])
                  /\ hedge[c].portfolio_values[i][1] = result[c].ret.initial_price

\* The time to maturity at step t: T - t dt with dt = T / n_steps.
Remaining(t) ==
    req.T - t * DivInt(req.T, req.n_steps)

\* C19: at every step t in 1..n_steps of every path the delta is the
\* Black-Scholes delta at (S_t, K, remaining, r, sigma, kind) when remaining =
\* T - t dt > 0.001 and the expiry-rule value otherwise; the delta of the
\* final step is always the expiry-rule value.
C19_DeltaRule ==
    \A c \in Threads :
        Hedged(c) =>
            \A i \in 1..req.n_paths :
                /\ \A t \in 1..req.n_steps :
                      hedge[c].deltas[i][t + 1]
                        = IF Remaining(t) > 1
                          THEN calculate_black_scholes(
                                   hedge[c].paths[i][t + 1], req.K, Remaining(t),
                                   req.r, req.sigma, req.option_type).ret.Delta
                          ELSE ExpiryDelta(hedge[c].paths[i][t + 1])
                /\ hedge[c].deltas[i][req.n_steps + 1]
                      = ExpiryDelta(hedge[c].paths[i][req.n_steps + 1])

\* A two-step hedge of two milliyears: at step 1 the remaining time is
\* 0.001, not more, and the delta is already the expiry-rule value, although the
\* Black-Scholes delta there is another number.
C19_Witness ==
    \E c \in Threads :
        /\ Hedged(c) /\ req.n_steps = 2 /\ req.n_paths >= 1 /\ req.T = 2
        /\ Remaining(1) = 1
        /\ hedge[c].deltas[1][2] = ExpiryDelta(hedge[c].paths[1][2])
        /\ hedge[c].deltas[1][2]
              # calculate_black_scholes(hedge[c].paths[1][2], req.K, Remaining(1),
                                        req.r, req.sigma, req.option_type).ret.Delta

\* C20: at every step t in 1..n_steps of every path, cash_t = cash_{t-1}
\* e^(r dt) - (delta_t - delta_{t-1}) S_t and portfolio_t = delta_t S_t +
\* cash_t, from the values of the same path at step t - 1.
C20_CashRecurrence ==
    \A c \in Threads :
        Hedged(c) =>
            \A i \in 1..req.n_paths :
                \A t \in 1..req.n_steps :
                    /\ hedge[c].cash_accounts[i][t + 1]
                          = Sub(Mul(hedge[c].cash_accounts[i][t],
                                    Exp(Mul(req.r, DivInt(req.T, req.n_steps)))),
                                Mul(Sub(hedge[c].deltas[i][t + 1], hedge[c].deltas[i][t]),
                                    hedge[c].paths[i][t + 1]))
                    /\ hedge[c].portfolio_values[i][t + 1]
                          = Add(Mul(hedge[c].deltas[i][t + 1], hedge[c].paths[i][t + 1]),
                                hedge[c].cash_accounts[i][t + 1])

\* A rebalancing step that changes the hedge and a cash account that has
\* earned interest on a balance other than 0.
C20_Witness ==
    \E c \in Threads :
        /\ Hedged(c) /\ req.n_steps = 2 /\ req.n_paths >= 1 /\ req.T = Scale
        /\ IsFinite(hedge[c].cash_accounts[1][2])
        /\ hedge[c].cash_accounts[1][1] # 0
        /\ hedge[c].deltas[1][2] # hedge[c].deltas[1][1]
        /\ Exp(Mul(req.r, DivInt(req.T, req.n_steps))) > Scale

\* a and b are the same number up to tol units of the grid (the roundings of
\* the products), or the same infinity or nan.
Near(a, b, tol) ==
    IF IsFinite(a) /\ IsFinite(b) THEN Abs(a - b) <= tol ELSE a = b

\* The trajectories of path i of thread c up to step t - 1.
Before(c, i, t) ==
    [deltas           |-> SubSeq(hedge[c].deltas[i], 1, t),
     cash_accounts    |-> SubSeq(hedge[c].cash_accounts[i], 1, t),
     portfolio_values |-> SubSeq(hedge[c].portfolio_values[i], 1, t)]

\* The hedging error of path i of thread c had the delta of the final step
\* been alt.
ErrorWithFinalDelta(c, i, alt) ==
    Sub(HedgeStep(Before(c, i, req.n_steps), req.n_steps,
                  hedge[c].paths[i][req.n_steps + 1], req.r,
                  DivInt(req.T, req.n_steps), alt).portfolio_values[req.n_steps + 1],
        IF req.option_type = "Call"
        THEN FMax(Sub(hedge[c].paths[i][req.n_steps + 1], req.K), 0)
        ELSE FMax(Sub(req.K, hedge[c].paths[i][req.n_steps + 1]), 0))

\* C22: the hedge is self-financing: at every step t in 1..n_steps of every
\* path, portfolio_t = delta_{t-1} S_t + cash_{t-1} e^(r dt) up to the rounding
\* of the products, whatever the new delta_t; so the hedging error is, up to
\* that rounding, the one any other delta of the final step gives.
C22_SelfFinancing ==
    \A c \in Threads :
        Hedged(c) =>
            \A i \in 1..req.n_paths :
                /\ \A t \in 1..req.n_steps :
                      Near(hedge[c].portfolio_values[i][t + 1],
                           Add(Mul(hedge[c].deltas[i][t], hedge[c].paths[i][t + 1]),
                               Mul(hedge[c].cash_accounts[i][t],
                                   Exp(Mul(req.r, DivInt(req.T, req.n_steps))))),
                           1)
                /\ \A alt \in {-Scale, 0, Scale \div 2, Scale} :
                      Near(hedge[c].hedging_errors[i], ErrorWithFinalDelta(c, i, alt), 2)

\* A rebalancing step that changes the hedge of a path with shares and debt,
\* and a final delta other than 0.
C22_Witness ==
    \E c \in Threads :
        /\ Hedged(c) /\ req.n_steps = 2 /\ req.n_paths >= 1 /\ req.T = Scale
        /\ IsFinite(hedge[c].portfolio_values[1][2]) /\ hedge[c].portfolio_values[1][2] # 0
        /\ hedge[c].deltas[1][1] # 0 /\ hedge[c].cash_accounts[1][1] # 0
        /\ hedge[c].deltas[1][2] # hedge[c].deltas[1][1]
        /\ hedge[c].deltas[1][2] # 0
        /\ hedge[c].deltas[1][3] # 0
        /\ IsFinite(hedge[c].hedging_errors[1])

(***************************************************************************)
(* Claims about the report of a hedging call (checked under DisplaySpec)   *)
(***************************************************************************)
\* max(S_T - K, 0) for a Call, max(K - S_T, 0) for a Put.
FinalPayoff(S_T) ==
    IF req.option_type = "Call" THEN FMax(Sub(S_T, req.K), 0) ELSE FMax(Sub(req.K, S_T), 0)

\* min(n_paths, 50)
Shown ==
    IF req.n_paths <= 50 THEN req.n_paths ELSE 50

ServesFromCache(c) ==
    quote.call[c].pc = "idle" /\ quote'.call[c].pc = "done"

\* Thread c finishes a fetch in this step: with the data, or with an error.
FetchSucceeds(c) ==
    /\ quote.call[c].pc = "fetch" /\ quote'.call[c].pc = "done"
    /\ quote'.call[c].outcome.raised = "none"

FetchFailsWith(c) ==
    /\ quote.call[c].pc = "fetch" /\ quote'.call[c].pc = "done"
    /\ quote'.call[c].outcome.raised # "none"

\* C24: in every step of get_realtime_asset, a response comes from
\* quote_cache without a fetch only when the upper-cased ticker has an entry
\* and current_time < its expiry, and it is never served 60 seconds or more
\* after it was fetched; a successful fetch stores its data with the expiry
\* of its start time plus 60 seconds; a fetch that fails (404 or 503) leaves
\* quote_cache unchanged; and an entry is only ever overwritten by a successful
\* fetch of its ticker, never removed.
C24_QuoteCache ==
    [][/\ \A c \in Threads :
            /\ ServesFromCache(c) =>
                  /\ quote'.call[c].ticker \in {"AAPL", "MSFT"}
                  /\ quote'.call[c].ticker \in DOMAIN quote.quote_cache
                  /\ quote'.call[c].current_time = quote.clock
                  /\ quote.clock < quote.quote_cache[quote'.call[c].ticker].expiry
                  /\ quote'.call[c].outcome
                        = Ok(quote.quote_cache[quote'.call[c].ticker].data)
                  /\ quote.clock - quote'.call[c].outcome.ret.last_updated < 60
                  /\ quote'.quote_cache = quote.quote_cache
            /\ FetchSucceeds(c) =>
                  /\ quote.call[c].ticker \in DOMAIN quote'.quote_cache
                  /\ quote'.quote_cache[quote.call[c].ticker]
                        = [data   |-> quote'.call[c].outcome.ret,
                           expiry |-> quote.call[c].current_time + 60]
                  /\ quote'.call[c].outcome.ret.last_updated >= quote.call[c].current_time
            /\ FetchFailsWith(c) =>
                  /\ quote'.call[c].outcome.raised
                        \in {"HTTPException 404", "HTTPException 503"}
                  /\ quote'.quote_cache = quote.quote_cache
       /\ DOMAIN quote.quote_cache \subseteq DOMAIN quote'.quote_cache
       /\ \A k \in DOMAIN quote.quote_cache :
            quote'.quote_cache[k] # quote.quote_cache[k] =>
                \E c \in Threads : FetchSucceeds(c) /\ quote.call[c].ticker = k
      ]_vars

\* A quote served from the cache half a minute after its fetch, to a request
\* for the lower-case ticker, while the entry of another ticker has expired
\* and is still there.
C24_Witness ==
    \E c \in Threads :
        /\ quote.call[c].pc = "done" /\ quote.call[c].hit
        /\ quote.call[c].ticker = "AAPL"
        /\ quote.call[c].current_time = quote.call[c].outcome.ret.last_updated + 30
        /\ "MSFT" \in DOMAIN quote.quote_cache
        /\ quote.quote_cache["MSFT"].expiry <= quote.clock

(***************************************************************************)
(* Claims about rebalance_portfolio (checked under RebalanceSpec)          *)
(***************************************************************************)
\* The sum of the weights is 1 up to a hundredth.
SumsToOne(weights) ==
    /\ IsFinite(SumSeq(weights))
    /\ Abs(SumSeq(weights) - Scale) <= 10

\* C25: with frequency monthly, quarterly or yearly and initial weights that
\* sum to 1, in every pass of the loop of rebalance_portfolio: the weights are
\* the initial weights again exactly if the date is at or after
\* last_rebalance_date + offset, and last_rebalance_date is then that date;
\* the portfolio return of the date is computed from the weights in force
\* before the drift update of the date; and after the pass the current
\* weights still sum to 1.
C25_WeightsSumToOne ==
    [][(rebal.pc = "for" /\ rebal'.pc = "for" /\ rebal'.i = rebal.i + 1) =>
          /\ rebal'.last_rebalance_date =
                IF NotBefore(req.returns.index[rebal'.i],
                             AddMonths(rebal.last_rebalance_date,
                                       OffsetMonths(req.frequency)))
                THEN req.returns.index[rebal'.i]
                ELSE rebal.last_rebalance_date
          /\ rebal'.portfolio_returns[rebal'.i] =
                DailyReturn(req.returns.rows[rebal'.i],
                            IF rebal'.last_rebalance_date = req.returns.index[rebal'.i]
                               /\ rebal'.i > 1
                            THEN req.initial_weights
                            ELSE rebal.current_weights)
          /\ SumsToOne(rebal'.current_weights)
      ]_vars

=============================================================================
